---- MODULE Spec2Model ----
(***************************************************************************)
(* gitpilot: the plan execution pipeline (src/gitpilot/agentic.py,         *)
(* execute_plan) over the GitHub primitives of src/gitpilot/github_api.py  *)
(* and the repository context of src/gitpilot/agent_tools.py.              *)
(*                                                                         *)
(* Spec      one call of execute_plan(plan, repo_full_name, token,         *)
(*           branch_name).  Every await of a GitHub request is split in    *)
(*           two steps, the request being issued and its response          *)
(*           arriving, so that what is in flight is a part of the state.   *)
(* NameSpec  the same call over many goals, for the derived branch name.   *)
(* WriteSpec one call of github_api.put_file.                              *)
(* PlanSpec  one call of generate_plan, and calls of the exploration       *)
(*           tools of agent_tools.                                         *)
(* TokenSpec blocks of github_api.execution_context and calls of           *)
(*           github_api.github_request.                                    *)
(* AppSpec   calls of github_app.get_installation_for_repo and             *)
(*           get_installation_token_for_repo as time passes.               *)
(* OAuthSpec calls of github_oauth.generate_authorization_url and          *)
(*           exchange_code_for_token as time passes.                       *)
(***************************************************************************)
EXTENDS Integers, Sequences, FiniteSets, TLC

VARIABLES
    plan,             \* PlanResult argument: [goal, steps]
    repo_full_name,   \* argument, a sequence of characters
    token,            \* argument token (None when not given)
    branch_arg,       \* argument branch_name as given by the caller
    request_token,    \* github_api._request_token (context variable)
    environ,          \* os.environ: GITPILOT_GITHUB_TOKEN and GITHUB_TOKEN
                      \*   (None: the variable is not set)
    llm_configured,   \* whether settings hold what build_llm requires
    access,           \* how GitHub answers this caller for this repository
    branches,         \* GitHub: the branch names of the repository
    files,            \* GitHub: branch name -> (path -> content)
    pc,               \* position in execute_plan
    owner_repo,       \* the parts of repo_full_name after line 333
    branch_name,      \* local branch_name after lines 338-344
    now,              \* int(time.time()) as read at line 343 (0: not read)
    stage,            \* position in create_branch
    inflight,         \* the GitHub requests awaiting their response
    requests,         \* history: every GitHub request issued, in order
    pending_exc,      \* exception that left the try body of line 347
    branch_created,   \* local of lines 351/360 (None while unassigned)
    warned,           \* whether the logger.warning of line 355 ran
    repo_context,     \* agent_tools._current_repo_context
    file_ops,         \* history: operations issued for file actions, each
                      \*   [step, file, path, op, branch, content, sha, ok]
    execution_steps,  \* local execution_steps, the per-step log, each
                      \*   [step_number, lines], a line being [mark, path]
    raised,           \* exception execute_plan ended with (None: none)
    result,           \* value execute_plan returned (None: nothing returned)
    app_installed,    \* whether the GitHub App is installed for the repository
    put_file_args,    \* put_file: its arguments [path, content, token, branch]
    put_file_pc,      \* put_file: position in the call
    sha,              \* put_file: local sha (None while it has none)
    put_file_requests,\* put_file: history of the GitHub requests it issued
    put_file_raised,  \* put_file: exception the call ended with
    put_file_result,  \* put_file: value returned (None: nothing returned)
    generate_plan_args,   \* generate_plan: [goal, repo_full_name, token]
    generate_plan_pc,     \* generate_plan: position in the call
    generate_plan_raised, \* generate_plan: exception the call ended with
    tool_call,        \* the last call of a tool of REPOSITORY_TOOLS:
                      \*   [tool, arg, requests, caught, raised, returned]
    token_vars,       \* the execution_context blocks that are open, outermost
                      \*   first, each [token, old_value]: its argument and
                      \*   the value its token_var (line 25) restores
    block_exit,       \* how the last execution_context block was left
    github_request_call, \* the last call of github_request:
                      \*   [token, github_token, requests, raised]
    clock,            \* the time, in seconds (time.time(), datetime.utcnow())
    app_configured,   \* whether GITHUB_APP_ID and the private key are set
    installation_cache, \* github_app._installation_cache: key -> entry
                      \*   [present, data, timestamp]
    token_cache,      \* github_app._token_cache: installation id -> entry
                      \*   [present, token, expires_at]
    minted,           \* how many installation tokens GitHub has minted
    installation_call, \* the last call of get_installation_for_repo:
                      \*   [at, cache_key, status, requests, returned]
    token_call,       \* the last call of get_installation_token_for_repo:
                      \*   [at, cache_key, cached_token, status, requests, returned]
    client_secret,    \* whether GITHUB_CLIENT_SECRET is set
    oauth_states,     \* github_oauth._oauth_states, the entries [state, timestamp]
    issued,           \* history: the time each state was issued at
    presentations,    \* history: state -> how often it was presented to
                      \*   exchange_code_for_token (2: twice or more)
    exchange_call     \* the last call of exchange_code_for_token:
                      \*   [at, state, accepted, raised, returned]

\* The state of one call of execute_plan.
executeVars == <<plan, repo_full_name, token, branch_arg, pc, owner_repo,
                 branch_name, now, stage, inflight, requests, pending_exc,
                 branch_created, warned, file_ops, execution_steps, raised, result>>

\* The state of one call of github_api.put_file.
putFileVars == <<app_installed, put_file_args, put_file_pc, sha, put_file_requests,
                 put_file_raised, put_file_result>>

\* The state of one call of generate_plan and of the tools of agent_tools.
planVars == <<generate_plan_args, generate_plan_pc, generate_plan_raised, tool_call>>

\* The execution_context blocks and the calls of github_request.
tokenVars == <<token_vars, block_exit, github_request_call>>

\* The clock and the caches of github_app.
appVars == <<clock, app_configured, installation_cache, token_cache, minted,
             installation_call, token_call>>

\* The stored states of github_oauth.
oauthVars == <<client_secret, oauth_states, issued, presentations, exchange_call>>

\* The state of the library functions that execute_plan, put_file and
\* generate_plan do not call.
libraryVars == <<tokenVars, appVars, oauthVars>>

\* What the process and GitHub hold whoever calls.
worldVars == <<request_token, environ, llm_configured, access, branches, files,
               repo_context>>

\* Everything a step of execute_plan leaves alone.
notExecuteVars == <<putFileVars, planVars, libraryVars>>

\* Everything a step of put_file leaves alone.
notPutFileVars == <<executeVars, planVars, libraryVars>>

\* Everything a step of generate_plan or of a tool leaves alone.
notPlanVars == <<executeVars, putFileVars, libraryVars>>

vars == <<worldVars, executeVars, putFileVars, planVars, libraryVars>>

None == "None"

\* ---------------------------------------------------------------- bounds

MaxSteps == 2
MaxFiles == 2
MaxGoalLen == 2

\* ---------------------------------------------------------------- inputs

Paths == {"a.py", "b.py"}
Actions == {"CREATE", "MODIFY", "DELETE", "READ"}
PlanFiles == [path : Paths, action : Actions]

SeqUpTo(S, n) == UNION {[1..k -> S] : k \in 0..n}

RECURSIVE SumLen(_)
SumLen(ss) == IF ss = <<>> THEN 0 ELSE Len(Head(ss)) + SumLen(Tail(ss))

\* Lists of file lists: at most MaxSteps steps holding at most MaxFiles file
\* actions between them.
FileLists ==
    {fl \in SeqUpTo(SeqUpTo(PlanFiles, MaxFiles), MaxSteps) : SumLen(fl) <= MaxFiles}

PlanStepOf(fl, i) == [step_number |-> i, files |-> fl[i]]

Goals == {<<"F", "i", "x", " ", "a">>, <<"!", "?">>}

Plans ==
    {[goal |-> g, steps |-> [i \in 1..Len(fl) |-> PlanStepOf(fl, i)]] :
        g \in Goals, fl \in FileLists}

RepoFullNames == {<<"o", "/", "r">>, <<"o", "r">>}

DefaultBranch == "main"
BranchArgs == {None, "", DefaultBranch, "feat"}

AccessKinds == {"ok", "bad_token", "not_found", "no_base_ref", "read_only"}

\* ------------------------------------------------------------ pure parts

\* str.split("/") on a sequence of characters.
RECURSIVE SplitAcc(_, _, _)
SplitAcc(s, cur, acc) ==
    IF s = <<>> THEN Append(acc, cur)
    ELSE IF Head(s) = "/" THEN SplitAcc(Tail(s), <<>>, Append(acc, cur))
    ELSE SplitAcc(Tail(s), Append(cur, Head(s)), acc)

Split(s) == SplitAcc(s, <<>>, <<>>)

RECURSIVE Join(_)
Join(cs) == IF cs = <<>> THEN "" ELSE Head(cs) \o Join(Tail(cs))

\* str.lower() on the characters the goals use.
LowerChar(c) == IF c = "F" THEN "f" ELSE IF c = "B" THEN "b" ELSE c

Lower(s) == [i \in 1..Len(s) |-> LowerChar(s[i])]

\* The class [a-z0-9-] of the pattern of line 341.
Kept == {"f", "i", "x", "a", "o", "r", "0", "1", "7", "-"}

\* re.sub(r'[^a-z0-9-]+', '-', s): every maximal run outside the class
\* becomes one "-".
RECURSIVE SubRuns(_, _)
SubRuns(s, inRun) ==
    IF s = <<>> THEN <<>>
    ELSE IF Head(s) \in Kept THEN <<Head(s)>> \o SubRuns(Tail(s), FALSE)
    ELSE IF inRun THEN SubRuns(Tail(s), TRUE)
    ELSE <<"-">> \o SubRuns(Tail(s), TRUE)

TruncateLen == 40

Take(s, n) == SubSeq(s, 1, IF Len(s) < n THEN Len(s) ELSE n)

RECURSIVE LStrip(_)
LStrip(s) == IF s # <<>> /\ Head(s) = "-" THEN LStrip(Tail(s)) ELSE s

RECURSIVE RStrip(_)
RStrip(s) ==
    IF s # <<>> /\ s[Len(s)] = "-" THEN RStrip(SubSeq(s, 1, Len(s) - 1)) ELSE s

Strip(s) == RStrip(LStrip(s))

\* Sanitize with the two calls of line 342 in the other order,
\* sanitized.strip('-')[:40].
SanitizeStripFirst(goal) == Take(Strip(SubRuns(Lower(goal), FALSE)), TruncateLen)

Sanitize(goal) == Strip(Take(SubRuns(Lower(goal), FALSE), TruncateLen))

DigitChar(d) == CASE d = 0 -> "0" [] d = 1 -> "1" [] d = 2 -> "2" [] d = 3 -> "3"
                  [] d = 4 -> "4" [] d = 5 -> "5" [] d = 6 -> "6" [] d = 7 -> "7"
                  [] d = 8 -> "8" [] d = 9 -> "9"

\* str(n) for n >= 0.
RECURSIVE Str(_)
Str(n) == IF n < 10 THEN <<DigitChar(n)>> ELSE Append(Str(n \div 10), DigitChar(n % 10))

TimestampLen == 6

LastN(s, n) == IF Len(s) <= n THEN s ELSE SubSeq(s, Len(s) - n + 1, Len(s))

\* The derived branch name with the whole of str(int(time.time())) for its
\* suffix, the [-6:] of line 343 left out.
DerivedBranchNameWholeTime(goal, t) ==
    "gitpilot-" \o Join(Sanitize(goal)) \o "-" \o Join(Str(t))

\* Lines 341-344: the derived branch name.
DerivedBranchName(goal, t) ==
    "gitpilot-" \o Join(Sanitize(goal)) \o "-" \o Join(LastN(Str(t), TimestampLen))

\* int(time.time()) at the time of the call: two times 10^6 seconds apart
\* and one whose last six digits start with zeros.
Nows == {1793533007, 1794533007, 1793003007}

Truthy(v) == v \notin {None, ""}

\* os.environ as far as _github_token reads it (line 54); None stands for a
\* variable that is not set.
Environ(gitpilot_github_token, github_token) ==
    [GITPILOT_GITHUB_TOKEN |-> gitpilot_github_token, GITHUB_TOKEN |-> github_token]
NoEnviron == Environ(None, None)

\* github_api._github_token: the token a request carries; None stands for the
\* HTTPException(401) of line 57.
GithubToken(provided_token) ==
    IF Truthy(provided_token) THEN provided_token
    ELSE IF Truthy(request_token) THEN request_token
    ELSE IF Truthy(environ.GITPILOT_GITHUB_TOKEN) THEN environ.GITPILOT_GITHUB_TOKEN
    ELSE IF Truthy(environ.GITHUB_TOKEN) THEN environ.GITHUB_TOKEN
    ELSE None

\* Exceptions, as type, HTTP status (0 when it has none) and detail.
Exc(type, status, detail) == [type |-> type, status |-> status, detail |-> detail]
NoException == Exc(None, 0, "")

\* What execute_plan returns (lines 566-572); NoResult while it has not returned.
NoResult == [status |-> None, branch |-> None, steps |-> <<>>]

\* agent_tools._current_repo_context = {} (line 19): .get() yields "".
EmptyContext == [owner |-> "", repo |-> ""]

\* ------------------------------------------------------------------ Init

\* No call of put_file is under way.
PutFileArgs == [path : Paths, content : {"c0", "c1"}, token : {None, "tokA"},
                branch : {None, "", "feat"}]

\* No call of generate_plan is under way and no tool has been called.
Text(head, lines) == [head |-> head, lines |-> lines]
NoText == Text(None, <<>>)

NoToolCall == [tool |-> None, arg |-> <<>>, requests |-> <<>>, caught |-> NoException,
               raised |-> NoException, returned |-> NoText]

PlanIdle ==
    /\ generate_plan_args = [goal |-> <<>>, repo_full_name |-> <<"o", "/", "r">>,
                             token |-> None]
    /\ generate_plan_pc = "idle"
    /\ generate_plan_raised = NoException
    /\ tool_call = NoToolCall

\* No execution_context block is open and github_request has not been called.
NoRequestCall == [token |-> None, github_token |-> None, requests |-> <<>>,
                  raised |-> NoException]

TokenIdle ==
    /\ token_vars = <<>>
    /\ block_exit = None
    /\ github_request_call = NoRequestCall

\* github_app.py, lines 29-30.
CACHE_TTL_SECONDS == 300
TOKEN_CACHE_BUFFER == 60

MaxMints == 3

\* The instants at which something happens, in seconds, and the lifetimes
\* GitHub gives an installation token (expires_at less the time of minting).
Instants == {0, 1, 299, 300, 301, 600, 601}
Lifetimes == {60, 360}

AppRepos == {"o/r"}
InstallationIds == {"i1"}
TokenNames == <<"ghs1", "ghs2", "ghs3", "ghs4", "ghs5">>

\* The status of GitHub's answer to GET /repos/{owner}/{repo}/installation
\* and to POST /app/installations/{id}/access_tokens.
LookupAnswers == {200, 404, 500}
MintAnswers == {201, 500}

NoInstallationEntry == [present |-> FALSE, data |-> None, timestamp |-> 0]
NoTokenEntry == [present |-> FALSE, token |-> None, expires_at |-> 0]

NoInstallationCall == [at |-> 0, cache_key |-> None, status |-> 0, requests |-> 0,
                       returned |-> None]
NoTokenCall == [at |-> 0, cache_key |-> None, cached_token |-> NoTokenEntry,
                status |-> 0, requests |-> 0, returned |-> None]

AppIdle ==
    /\ clock = 0
    /\ app_configured = FALSE
    /\ installation_cache = [k \in AppRepos |-> NoInstallationEntry]
    /\ token_cache = [i \in InstallationIds |-> NoTokenEntry]
    /\ minted = 0
    /\ installation_call = NoInstallationCall
    /\ token_call = NoTokenCall

\* github_oauth: the states of the web flow are numbered as issued, 0 being a
\* value that generate_authorization_url never issued.
MaxStates == 2

NoExchangeCall == [at |-> 0, state |-> 0, accepted |-> FALSE, raised |-> None,
                   returned |-> None]

OAuthIdle ==
    /\ client_secret = FALSE
    /\ oauth_states = {}
    /\ issued = <<>>
    /\ presentations = [s \in 0..MaxStates |-> 0]
    /\ exchange_call = NoExchangeCall

\* None of the library functions has been called.
LibraryIdle == TokenIdle /\ AppIdle /\ OAuthIdle

PutFileIdle ==
    /\ app_installed = FALSE
    /\ put_file_args = [path |-> "a.py", content |-> "c0", token |-> None, branch |-> None]
    /\ put_file_pc = "idle"
    /\ sha = None
    /\ put_file_requests = <<>>
    /\ put_file_raised = NoException
    /\ put_file_result = None

InitialFiles == [p \in Paths |-> IF p = "a.py" THEN "c0" ELSE None]

\* The locals of execute_plan as the call starts.
ExecuteStart ==
    /\ pc = "start"
    /\ owner_repo = <<>>
    /\ branch_name = branch_arg
    /\ now = 0
    /\ stage = None
    /\ inflight = {}
    /\ requests = <<>>
    /\ pending_exc = NoException
    /\ branch_created = None
    /\ warned = FALSE
    /\ file_ops = <<>>
    /\ execution_steps = <<>>
    /\ raised = NoException
    /\ result = NoResult

Init ==
    /\ plan \in Plans
    /\ repo_full_name \in RepoFullNames
    /\ token \in {None, "tokA"}
    /\ branch_arg \in BranchArgs
    /\ request_token \in {None, "tokC"}
    /\ environ \in {NoEnviron, Environ("tokE", None)}
    /\ llm_configured \in BOOLEAN
    /\ access \in AccessKinds
    /\ branches \in {{DefaultBranch}, {DefaultBranch, "feat"}}
    /\ files = [b \in branches |-> InitialFiles]
    /\ repo_context = EmptyContext
    /\ ExecuteStart
    /\ PutFileIdle
    /\ PlanIdle
    /\ LibraryIdle

\* --------------------------------------------------------- execute_plan

Ended(exc) ==
    /\ raised' = exc
    /\ pc' = "ended"

\* Line 333: owner, repo = repo_full_name.split("/"), and line 334.
SplitRepoFullName ==
    /\ pc = "start"
    /\ LET parts == Split(repo_full_name) IN
        IF Len(parts) = 2
        THEN /\ owner_repo' = <<Join(parts[1]), Join(parts[2])>>
             /\ pc' = "build_llm"
             /\ UNCHANGED raised
        ELSE /\ Ended(Exc("ValueError", 0, "unpack"))
             /\ UNCHANGED owner_repo
    /\ UNCHANGED <<plan, repo_full_name, token, branch_arg, request_token, environ,
                   llm_configured, access, branches, files, branch_name, now, stage,
                   inflight, requests, pending_exc, branch_created, warned,
                   repo_context, file_ops, execution_steps, result>>
    /\ UNCHANGED notExecuteVars

\* Line 335: llm = build_llm(), which raises ValueError when the provider's
\* credentials are not configured.
BuildLlm ==
    /\ pc = "build_llm"
    /\ IF llm_configured
       THEN pc' = "branch_name" /\ UNCHANGED raised
       ELSE Ended(Exc("ValueError", 0, "llm"))
    /\ UNCHANGED <<plan, repo_full_name, token, branch_arg, request_token, environ,
                   llm_configured, access, branches, files, owner_repo, branch_name, now,
                   stage, inflight, requests, pending_exc, branch_created, warned,
                   repo_context, file_ops, execution_steps, result>>
    /\ UNCHANGED notExecuteVars

\* Lines 338-344 with the lower-cased goal written back to the plan
\* (plan.goal = plan.goal.lower() ahead of line 341).
DecideBranchNameInPlace ==
    /\ pc = "branch_name"
    /\ plan' = [plan EXCEPT !.goal = Lower(plan.goal)]
    /\ \E t \in Nows :
        IF branch_name = None
        THEN /\ now' = t
             /\ branch_name' = DerivedBranchName(plan.goal, t)
        ELSE UNCHANGED <<branch_name, now>>
    /\ pc' = "create_branch"
    /\ stage' = "get_repo"
    /\ UNCHANGED <<repo_full_name, token, branch_arg, request_token, environ,
                   llm_configured, access, branches, files, owner_repo, inflight,
                   requests, pending_exc, branch_created, warned, repo_context,
                   file_ops, execution_steps, raised, result>>
    /\ UNCHANGED notExecuteVars

\* Lines 338-344: the branch name is derived only when none was given.
DecideBranchName ==
    /\ pc = "branch_name"
    /\ \E t \in Nows :
        IF branch_name = None
        THEN /\ now' = t
             /\ branch_name' = DerivedBranchName(plan.goal, t)
        ELSE UNCHANGED <<branch_name, now>>
    /\ pc' = "create_branch"
    /\ stage' = "get_repo"
    /\ UNCHANGED <<plan, repo_full_name, token, branch_arg, request_token, environ,
                   llm_configured, access, branches, files, owner_repo, inflight,
                   requests, pending_exc, branch_created, warned, repo_context,
                   file_ops, execution_steps, raised, result>>
    /\ UNCHANGED notExecuteVars

\* ------------------------------------------- create_branch (github_api)

\* The three requests of create_branch(owner, repo, branch_name, "HEAD"):
\* get_repo (line 303), the base ref (line 309), the new ref (line 320).
CreateBranchCall(st) ==
    CASE st = "get_repo" -> [method |-> "GET", what |-> "repo", ref |-> ""]
      [] st = "get_ref"  -> [method |-> "GET", what |-> "ref", ref |-> DefaultBranch]
      [] st = "post_ref" -> [method |-> "POST", what |-> "refs", ref |-> branch_name]

\* github_request, lines 75-84: the token is resolved first; with none, the
\* HTTPException(401) of _github_token leaves create_branch and no request
\* is issued.
CreateBranchRequest ==
    /\ pc = "create_branch"
    /\ inflight = {}
    /\ LET tok == GithubToken(token)
           req == CreateBranchCall(stage) IN
        IF tok = None
        THEN /\ pending_exc' = Exc("HTTPException", 401, "GitHub authentication required")
             /\ pc' = "except"
             /\ UNCHANGED <<inflight, requests>>
        ELSE /\ inflight' = {req}
             /\ requests' = Append(requests, req)
             /\ UNCHANGED <<pending_exc, pc>>
    /\ UNCHANGED <<plan, repo_full_name, token, branch_arg, request_token, environ,
                   llm_configured, access, branches, files, owner_repo, branch_name, now,
                   stage, branch_created, warned, repo_context, file_ops,
                   execution_steps, raised, result>>
    /\ UNCHANGED notExecuteVars

\* How GitHub answers the request of a stage: the HTTP status and message.
GithubAnswer(st) ==
    CASE st = "get_repo" ->
            IF access = "bad_token" THEN <<401, "Bad credentials">>
            ELSE IF access = "not_found" THEN <<404, "Not Found">>
            ELSE <<200, "">>
      [] st = "get_ref" ->
            IF access = "no_base_ref" THEN <<409, "Git Repository is empty.">>
            ELSE <<200, "">>
      [] st = "post_ref" ->
            IF access = "read_only" THEN <<403, "Resource not accessible">>
            ELSE IF branch_name = "" THEN <<422, "Reference name is invalid">>
            ELSE IF branch_name \in branches THEN <<422, "Reference already exists">>
            ELSE <<201, "">>

\* github_request, lines 86-100, inside create_branch: a status of 400 or more
\* is raised as HTTPException; the POST that succeeds creates the branch from
\* the default branch and create_branch returns (line 326), so that lines
\* 350-351 run.
CreateBranchResponse ==
    /\ pc = "create_branch"
    /\ inflight # {}
    /\ inflight' = {}
    /\ LET answer == GithubAnswer(stage) IN
        IF answer[1] >= 400
        THEN /\ pending_exc' = Exc("HTTPException", answer[1], answer[2])
             /\ pc' = "except"
             /\ UNCHANGED <<stage, branches, files, branch_created>>
        ELSE IF stage = "post_ref"
        THEN /\ branches' = branches \cup {branch_name}
             /\ files' = [b \in branches \cup {branch_name} |->
                             IF b \in branches THEN files[b] ELSE files[DefaultBranch]]
             /\ branch_created' = "True"
             /\ pc' = "set_repo_context"
             /\ UNCHANGED <<stage, pending_exc>>
        ELSE /\ stage' = IF stage = "get_repo" THEN "get_ref" ELSE "post_ref"
             /\ UNCHANGED <<pc, pending_exc, branches, files, branch_created>>
    /\ UNCHANGED <<plan, repo_full_name, token, branch_arg, request_token, environ,
                   llm_configured, access, owner_repo, branch_name, now, requests, warned,
                   repo_context, file_ops, execution_steps, raised, result>>
    /\ UNCHANGED notExecuteVars

\* The names bound in the module namespace of agentic.py by its imports
\* (lines 1-13) and its definitions; line 329 adds local names only.
AgenticNames ==
    {"asyncio", "contextvars", "logging", "dedent", "List", "Literal", "Agent",
     "Crew", "Process", "Task", "BaseModel", "Field", "build_llm",
     "REPOSITORY_TOOLS", "set_repo_context", "get_repository_context_summary",
     "logger", "PlanFile", "PlanStep", "PlanResult", "generate_plan",
     "execute_plan", "get_flow_definition",
     "get_file", "put_file", "create_branch", "get_repo", "re", "time"}

\* Line 352, "except HTTPException as e": the exception leaving the try body
\* is matched against the value of the name HTTPException.  Looking up a name
\* that is not bound raises NameError in place of the handler's body; bound,
\* lines 355-360 run for an HTTPException.
ExceptHTTPException ==
    /\ pc = "except"
    /\ IF "HTTPException" \notin AgenticNames
       THEN /\ Ended(Exc("NameError", 0, "HTTPException"))
            /\ UNCHANGED <<warned, branch_created>>
       ELSE /\ warned' = TRUE
            /\ branch_created' = "False"
            /\ pc' = "set_repo_context"
            /\ UNCHANGED raised
    /\ UNCHANGED pending_exc
    /\ UNCHANGED <<plan, repo_full_name, token, branch_arg, request_token, environ,
                   llm_configured, access, branches, files, owner_repo, branch_name, now,
                   stage, inflight, requests, repo_context, file_ops,
                   execution_steps, result>>
    /\ UNCHANGED notExecuteVars

\* agent_tools.set_repo_context(owner, repo): its parameters (line 22).
SetRepoContextParams == {"owner", "repo"}

\* Line 363: set_repo_context(owner, repo, token=token), the arguments given.
SetRepoContextArgs == {"owner", "repo", "token"}

\* Line 363.  A keyword argument that names no parameter raises TypeError
\* before the body of set_repo_context runs; the call stands outside every
\* try of execute_plan, so the TypeError ends the call.  Lines 365-572 (the
\* code writer, the loop over steps and files, the return) run only after
\* this call has returned.
SetRepoContext ==
    /\ pc = "set_repo_context"
    /\ IF SetRepoContextArgs \subseteq SetRepoContextParams
       THEN /\ repo_context' = [owner |-> owner_repo[1], repo |-> owner_repo[2]]
            /\ pc' = "per_step"
            /\ UNCHANGED raised
       ELSE /\ Ended(Exc("TypeError", 0, "token"))
            /\ UNCHANGED repo_context
    /\ UNCHANGED <<plan, repo_full_name, token, branch_arg, request_token, environ,
                   llm_configured, access, branches, files, owner_repo, branch_name, now,
                   stage, inflight, requests, pending_exc, branch_created, warned,
                   file_ops, execution_steps, result>>
    /\ UNCHANGED notExecuteVars

Next ==
    \/ SplitRepoFullName
    \/ BuildLlm
    \/ DecideBranchName
    \/ CreateBranchRequest
    \/ CreateBranchResponse
    \/ ExceptHTTPException
    \/ SetRepoContext

Spec == Init /\ [][Next]_vars

\* ------------------------------------------------ put_file (github_api)
\*
\* One behaviour of WriteSpec is one call of put_file(owner, repo, path,
\* content, message, token, branch), as api_put_file (api.py, line 126) and
\* execute_plan make it.  Each request is taken with its response.

\* No call of execute_plan is under way.
ExecuteIdle ==
    /\ plan = [goal |-> <<>>, steps |-> <<>>]
    /\ repo_full_name = <<"o", "/", "r">>
    /\ token = None
    /\ branch_arg = None
    /\ pc = "idle"
    /\ owner_repo = <<"o", "r">>
    /\ branch_name = None
    /\ now = 0
    /\ stage = None
    /\ inflight = {}
    /\ requests = <<>>
    /\ pending_exc = NoException
    /\ branch_created = None
    /\ warned = FALSE
    /\ file_ops = <<>>
    /\ execution_steps = <<>>
    /\ raised = NoException
    /\ result = NoResult

InitWrite ==
    /\ request_token \in {None, "tokC"}
    /\ environ \in {NoEnviron, Environ("tokE", None)}
    /\ access \in AccessKinds
    /\ branches \in {{DefaultBranch}, {DefaultBranch, "feat"}}
    /\ files = [b \in branches |-> InitialFiles]
    /\ llm_configured = TRUE
    /\ repo_context = EmptyContext
    /\ ExecuteIdle
    /\ PlanIdle
    /\ LibraryIdle
    /\ app_installed \in BOOLEAN
    /\ put_file_args \in PutFileArgs
    /\ put_file_pc = "get_sha"
    /\ sha = None
    /\ put_file_requests = <<>>
    /\ put_file_raised = NoException
    /\ put_file_result = None

\* The SHA GitHub gives the blob of a content.
BlobSha(content) == "sha-" \o content

\* The branch a contents request without a ref or branch addresses.
TargetBranch(ref) == IF Truthy(ref) THEN ref ELSE DefaultBranch

\* github_request for GET /repos/{owner}/{repo}/contents/{path}: the status
\* and the sha of the answer (status 401 and no request without a token).
ContentsGet(tok, path, ref) ==
    IF tok = None THEN [status |-> 401, sha |-> None]
    ELSE IF access = "bad_token" THEN [status |-> 401, sha |-> None]
    ELSE IF access = "not_found" THEN [status |-> 404, sha |-> None]
    ELSE IF TargetBranch(ref) \notin branches THEN [status |-> 404, sha |-> None]
    ELSE IF files[TargetBranch(ref)][path] = None THEN [status |-> 404, sha |-> None]
    ELSE [status |-> 200, sha |-> BlobSha(files[TargetBranch(ref)][path])]

\* github_request for PUT /repos/{owner}/{repo}/contents/{path}: the status
\* GitHub answers a body with.
ContentsPut(tok, path, body) ==
    IF tok = None THEN 401
    ELSE IF access = "bad_token" THEN 401
    ELSE IF access = "not_found" THEN 404
    ELSE IF access = "read_only" THEN 403
    ELSE IF TargetBranch(body.branch) \notin branches THEN 404
    ELSE LET held == files[TargetBranch(body.branch)][path] IN
         IF held = None THEN (IF body.sha = None THEN 201 ELSE 422)
         ELSE IF body.sha = None THEN 422
         ELSE IF body.sha # BlobSha(held) THEN 409
         ELSE 200

\* Lines 414-427: the SHA of the file as it is, read on the branch when one is
\* given; every HTTPException of the read, the missing token included, leaves
\* sha at None.
PutFileGetSha ==
    /\ put_file_pc = "get_sha"
    /\ LET tok == GithubToken(put_file_args.token)
           ref == IF Truthy(put_file_args.branch) THEN put_file_args.branch ELSE None
           existing == ContentsGet(tok, put_file_args.path, ref) IN
        /\ sha' = IF existing.status >= 400 THEN None ELSE existing.sha
        /\ put_file_requests' =
              IF tok = None THEN put_file_requests
              ELSE Append(put_file_requests,
                          [method |-> "GET", path |-> put_file_args.path,
                           branch |-> ref, sha |-> None, token |-> tok])
    /\ put_file_pc' = "put"
    /\ UNCHANGED <<app_installed, put_file_args, put_file_raised, put_file_result>>
    /\ UNCHANGED <<worldVars, notPutFileVars>>

\* Lines 429-450: the body carries sha and branch when they are truthy; the
\* PUT is issued once, with the caller's token; a refusal is raised to the
\* caller as the HTTPException of github_request, and an acceptance commits
\* the content to the branch addressed.
PutFilePut ==
    /\ put_file_pc = "put"
    /\ LET tok == GithubToken(put_file_args.token)
           body == [content |-> put_file_args.content,
                    sha |-> IF Truthy(sha) THEN sha ELSE None,
                    branch |-> IF Truthy(put_file_args.branch)
                               THEN put_file_args.branch ELSE None]
           status == ContentsPut(tok, put_file_args.path, body) IN
        /\ put_file_requests' =
              IF tok = None THEN put_file_requests
              ELSE Append(put_file_requests,
                          [method |-> "PUT", path |-> put_file_args.path,
                           branch |-> body.branch, sha |-> body.sha, token |-> tok])
        /\ IF status >= 400
           THEN /\ put_file_raised' = Exc("HTTPException", status, "")
                /\ UNCHANGED <<files, put_file_result>>
           ELSE /\ files' = [files EXCEPT ![TargetBranch(body.branch)][put_file_args.path] =
                                 put_file_args.content]
                /\ put_file_result' = put_file_args.path
                /\ UNCHANGED put_file_raised
    /\ put_file_pc' = "done"
    /\ UNCHANGED <<app_installed, put_file_args, sha>>
    /\ UNCHANGED <<request_token, environ, llm_configured, access, branches,
                   repo_context, notPutFileVars>>

NextWrite ==
    \/ PutFileGetSha
    \/ PutFilePut

WriteSpec == InitWrite /\ [][NextWrite]_vars

\* ------------------------------------------------ the branch name
\*
\* NameSpec: calls of execute_plan over many goals, each with a plan of one
\* step, the token being the argument or missing.

GoalChars == {"F", "7", "-", "!", " "}

\* Goals short and long: a long goal is TruncateLen - 1 letters followed by
\* a short goal, so that the cut of line 342 falls inside its tail.
NameGoals ==
    LET short == SeqUpTo(GoalChars, MaxGoalLen) IN
    short \cup {[i \in 1..(TruncateLen - 1) |-> "a"] \o g : g \in short}

InitName ==
    /\ plan \in {[goal |-> g,
                  steps |-> <<PlanStepOf(<< <<[path |-> "a.py", action |-> "CREATE"]>> >>, 1)>>] :
                    g \in NameGoals}
    /\ repo_full_name \in RepoFullNames
    /\ token \in {None, "tokA"}
    /\ branch_arg \in {None, "", "feat"}
    /\ request_token = None
    /\ environ = NoEnviron
    /\ llm_configured \in BOOLEAN
    /\ access \in AccessKinds
    /\ branches \in {{DefaultBranch}, {DefaultBranch, "feat"}}
    /\ files = [b \in branches |-> InitialFiles]
    /\ repo_context = EmptyContext
    /\ ExecuteStart
    /\ PutFileIdle
    /\ PlanIdle
    /\ LibraryIdle

NameSpec == InitName /\ [][Next]_vars

\* ------------------------------------ generate_plan and the tools
\*
\* PlanSpec: one call of generate_plan(goal, repo_full_name, token), and
\* calls of the tools of REPOSITORY_TOOLS (agent_tools.py, lines 426-433),
\* which the agents of generate_plan are given and which take the repository
\* from the module's _current_repo_context.  A tool call is one step.

InitPlan ==
    /\ request_token \in {None, "tokC"}
    /\ environ \in {NoEnviron, Environ("tokE", None)}
    /\ llm_configured \in BOOLEAN
    /\ access \in AccessKinds
    /\ branches \in {{DefaultBranch}, {DefaultBranch, "feat"}}
    /\ files = [b \in branches |-> InitialFiles]
    /\ repo_context \in {EmptyContext, [owner |-> "o", repo |-> "r"]}
    /\ ExecuteIdle
    /\ PutFileIdle
    /\ LibraryIdle
    /\ generate_plan_args \in [goal : Goals, repo_full_name : RepoFullNames,
                               token : {None, "tokA"}]
    /\ generate_plan_pc = "build_llm"
    /\ generate_plan_raised = NoException
    /\ tool_call = NoToolCall

GeneratePlanEnded(exc) ==
    /\ generate_plan_raised' = exc
    /\ generate_plan_pc' = "ended"

\* Line 48: llm = build_llm().
GeneratePlanBuildLlm ==
    /\ generate_plan_pc = "build_llm"
    /\ IF llm_configured
       THEN generate_plan_pc' = "split" /\ UNCHANGED generate_plan_raised
       ELSE GeneratePlanEnded(Exc("ValueError", 0, "llm"))
    /\ UNCHANGED <<generate_plan_args, tool_call, worldVars, notPlanVars>>

\* Line 51: owner, repo = repo_full_name.split("/").
GeneratePlanSplit ==
    /\ generate_plan_pc = "split"
    /\ IF Len(Split(generate_plan_args.repo_full_name)) = 2
       THEN generate_plan_pc' = "set_repo_context" /\ UNCHANGED generate_plan_raised
       ELSE GeneratePlanEnded(Exc("ValueError", 0, "unpack"))
    /\ UNCHANGED <<generate_plan_args, tool_call, worldVars, notPlanVars>>

\* Line 53: set_repo_context(owner, repo, token=token), the arguments given.
GeneratePlanSetRepoContextArgs == {"owner", "repo", "token"}

\* Line 53.  As at line 363, the keyword argument token names no parameter
\* of set_repo_context and the call raises TypeError; it stands outside every
\* try, so generate_plan ends there.  The context summary of line 58, the
\* two crews and the return (lines 58-307) come after it.
GeneratePlanSetRepoContext ==
    /\ generate_plan_pc = "set_repo_context"
    /\ IF GeneratePlanSetRepoContextArgs \subseteq SetRepoContextParams
       THEN /\ repo_context' =
                  LET parts == Split(generate_plan_args.repo_full_name) IN
                  [owner |-> Join(parts[1]), repo |-> Join(parts[2])]
            /\ generate_plan_pc' = "explore"
            /\ UNCHANGED generate_plan_raised
       ELSE /\ GeneratePlanEnded(Exc("TypeError", 0, "token"))
            /\ UNCHANGED repo_context
    /\ UNCHANGED <<generate_plan_args, tool_call, request_token, environ,
                   llm_configured, access, branches, files, notPlanVars>>

\* agent_tools.get_repo_context (lines 28-34): the ValueError it raises when
\* owner or repo is missing, else no exception.
GetRepoContext ==
    IF repo_context.owner = "" \/ repo_context.repo = ""
    THEN Exc("ValueError", 0, "Repository context not set. Call set_repo_context first.")
    ELSE NoException

\* The paths in sorted order, and the characters of a path.
PathOrder == <<"a.py", "b.py">>

PathChars(p) ==
    CASE p = "a.py" -> <<"a", ".", "p", "y">>
      [] p = "b.py" -> <<"b", ".", "p", "y">>
      [] OTHER -> <<"z", "z", ".", "p", "y">>

\* github_api.get_repo_tree(owner, repo) (lines 329-356) as a tool calls it,
\* without a token argument: the blobs of HEAD, here in sorted order.
GetRepoTree ==
    LET tok == GithubToken(None)
        req == <<[method |-> "GET", what |-> "git/trees/HEAD"]>> IN
    IF tok = None
    THEN [exc |-> Exc("HTTPException", 401, "GitHub authentication required"),
          requests |-> <<>>, tree |-> <<>>]
    ELSE IF access = "bad_token"
    THEN [exc |-> Exc("HTTPException", 401, "GitHub Token Expired or Invalid"),
          requests |-> req, tree |-> <<>>]
    ELSE IF access = "not_found"
    THEN [exc |-> Exc("HTTPException", 404, "Not Found"), requests |-> req, tree |-> <<>>]
    ELSE IF access = "no_base_ref"
    THEN [exc |-> Exc("HTTPException", 409, "Git Repository is empty."),
          requests |-> req, tree |-> <<>>]
    ELSE [exc |-> NoException, requests |-> req,
          tree |-> SelectSeq(PathOrder, LAMBDA p : files[DefaultBranch][p] # None)]

\* github_api.get_file(owner, repo, path) (lines 359-388) as read_file calls
\* it, without a token or a ref.
GetFile(path) ==
    LET tok == GithubToken(None)
        req == <<[method |-> "GET", what |-> "contents"]>> IN
    IF tok = None
    THEN [exc |-> Exc("HTTPException", 401, "GitHub authentication required"),
          requests |-> <<>>, content |-> ""]
    ELSE IF access = "bad_token"
    THEN [exc |-> Exc("HTTPException", 401, "GitHub Token Expired or Invalid"),
          requests |-> req, content |-> ""]
    ELSE IF access \in {"not_found", "no_base_ref"} \/ path \notin Paths
    THEN [exc |-> Exc("HTTPException", 404, "Not Found"), requests |-> req, content |-> ""]
    ELSE IF files[DefaultBranch][path] = None
    THEN [exc |-> Exc("HTTPException", 404, "Not Found"), requests |-> req, content |-> ""]
    ELSE [exc |-> NoException, requests |-> req, content |-> files[DefaultBranch][path]]

\* What the body of the try of a tool comes to: the exception that leaves it,
\* or the text it returns.
Raises(exc, reqs) == [exc |-> exc, requests |-> reqs, text |-> NoText]
Returns(text, reqs) == [exc |-> NoException, requests |-> reqs, text |-> text]

\* The body of a tool that formats the tree: get_repo_context, get_repo_tree,
\* then the text formatted from the tree (lines 131-151, 171-213, 266-290,
\* 312-342, 365-420).
TreeTool(formatted) ==
    IF GetRepoContext # NoException THEN Raises(GetRepoContext, <<>>)
    ELSE IF GetRepoTree.exc # NoException THEN Raises(GetRepoTree.exc, GetRepoTree.requests)
    ELSE Returns(formatted, GetRepoTree.requests)

\* The "except Exception as e" of each tool: the head of the text returned.
ErrorHead(tool) ==
    CASE tool = "list_repository_files" -> "Error listing repository files"
      [] tool = "get_directory_structure" -> "Error getting directory structure"
      [] tool = "read_file" -> "Error reading file"
      [] tool = "search_files" -> "Error searching for files"
      [] tool = "list_directory_files" -> "Error listing directory"
      [] tool = "get_repository_summary" -> "Error generating repository summary"

\* A tool with get_repo_context() called ahead of its try: the ValueError of
\* an unset context reaches the caller.
ToolReturnContextAhead(tool, arg, body) ==
    [tool |-> tool, arg |-> arg, requests |-> body.requests, caught |-> body.exc,
     raised |-> IF body.exc.type = "ValueError" THEN body.exc ELSE NoException,
     returned |-> IF body.exc.type = "ValueError" THEN NoText
                  ELSE IF body.exc # NoException
                  THEN Text(ErrorHead(tool), <<body.exc.detail>>)
                  ELSE body.text]

\* The try/except of a tool around its body (lines 130/152, 170/214, 234/245,
\* 265/291, 311/343, 364/421): an exception of the body becomes the text
\* returned, and nothing is raised.
ToolReturn(tool, arg, body) ==
    [tool |-> tool, arg |-> arg, requests |-> body.requests, caught |-> body.exc,
     raised |-> NoException,
     returned |-> IF body.exc # NoException
                  THEN Text(ErrorHead(tool), <<body.exc.detail>>)
                  ELSE body.text]

\* Everything a call of a tool leaves alone.
notToolVars == <<generate_plan_args, generate_plan_pc, generate_plan_raised,
                 worldVars, notPlanVars>>

EmptyText == Text("Repository is empty - no files found.", <<>>)

\* Lines 116-153.
ListRepositoryFiles ==
    /\ tool_call' = ToolReturn("list_repository_files", <<>>,
             TreeTool(IF GetRepoTree.tree = <<>> THEN EmptyText
                      ELSE Text("Files:", GetRepoTree.tree)))
    /\ UNCHANGED notToolVars

\* Lines 156-215 (the paths of the model have no directory part).
GetDirectoryStructure ==
    /\ tool_call' = ToolReturn("get_directory_structure", <<>>,
             TreeTool(IF GetRepoTree.tree = <<>> THEN EmptyText
                      ELSE Text("Directory Structure:", GetRepoTree.tree)))
    /\ UNCHANGED notToolVars

\* A read_file that commits an empty file when the path is missing, in
\* place of reporting the failure.
ReadFileCreating ==
    \E file_path \in Paths \cup {"zz.py"} :
        /\ tool_call' = ToolReturn("read_file", PathChars(file_path),
                                   Returns(Text("Content of", <<"">>), GetFile(file_path).requests))
        /\ files' = IF file_path \in Paths /\ GetFile(file_path).exc.status = 404
                    THEN [files EXCEPT ![DefaultBranch][file_path] = ""]
                    ELSE files
        /\ UNCHANGED <<generate_plan_args, generate_plan_pc, generate_plan_raised,
                       request_token, environ, llm_configured, access, branches,
                       repo_context, notPlanVars>>

\* Lines 218-246.
ReadFile ==
    \E file_path \in Paths \cup {"zz.py"} :
        /\ tool_call' = ToolReturn("read_file", PathChars(file_path),
                 IF GetRepoContext # NoException THEN Raises(GetRepoContext, <<>>)
                 ELSE IF GetFile(file_path).exc # NoException
                 THEN Raises(GetFile(file_path).exc, GetFile(file_path).requests)
                 ELSE Returns(Text("Content of", <<GetFile(file_path).content>>),
                              GetFile(file_path).requests))
        /\ UNCHANGED notToolVars

\* pattern in path, on sequences of characters.
Contains(pattern, path) ==
    \E i \in 0..Len(path) :
        /\ i + Len(pattern) <= Len(path)
        /\ SubSeq(path, i + 1, i + Len(pattern)) = pattern

Patterns == {<<".", "p", "y">>, <<"B">>, <<"a", ".">>}

\* Lines 249-292.
SearchFiles ==
    \E pattern \in Patterns :
        /\ tool_call' = ToolReturn("search_files", pattern,
                 TreeTool(
                    LET matching_files ==
                            SelectSeq(GetRepoTree.tree, LAMBDA p : Contains(Lower(pattern),
                                                                Lower(PathChars(p)))) IN
                    IF matching_files = <<>> THEN Text("No files found matching pattern", <<>>)
                    ELSE Text("Files matching", matching_files)))
        /\ UNCHANGED notToolVars

RECURSIVE RStripSlash(_)
RStripSlash(s) ==
    IF s # <<>> /\ s[Len(s)] = "/" THEN RStripSlash(SubSeq(s, 1, Len(s) - 1)) ELSE s

Directories == {<<>>, <<"/">>, <<"s", "r", "c">>}

\* Lines 295-344: the direct children of the directory.
ListDirectoryFiles ==
    \E directory \in Directories :
        /\ tool_call' = ToolReturn("list_directory_files", directory,
                 TreeTool(
                    LET dir_path == IF RStripSlash(directory) = <<>> THEN <<>>
                                    ELSE RStripSlash(directory) \o <<"/">>
                        files_in_dir ==
                            SelectSeq(GetRepoTree.tree, LAMBDA p :
                                /\ Len(dir_path) <= Len(PathChars(p))
                                /\ SubSeq(PathChars(p), 1, Len(dir_path)) = dir_path
                                /\ \A i \in (Len(dir_path) + 1)..Len(PathChars(p)) :
                                       PathChars(p)[i] # "/") IN
                    IF files_in_dir = <<>> THEN Text("Directory not found or is empty.", <<>>)
                    ELSE Text("Files in directory", files_in_dir)))
        /\ UNCHANGED notToolVars

\* Lines 347-422.
GetRepositorySummary ==
    /\ tool_call' = ToolReturn("get_repository_summary", <<>>,
             TreeTool(IF GetRepoTree.tree = <<>> THEN EmptyText
                      ELSE Text("Repository Summary", GetRepoTree.tree)))
    /\ UNCHANGED notToolVars

NextPlan ==
    \/ GeneratePlanBuildLlm
    \/ GeneratePlanSplit
    \/ GeneratePlanSetRepoContext
    \/ ListRepositoryFiles
    \/ GetDirectoryStructure
    \/ ReadFile
    \/ SearchFiles
    \/ ListDirectoryFiles
    \/ GetRepositorySummary

PlanSpec == InitPlan /\ [][NextPlan]_vars

\* ------------------------------------------------ the token of a request
\*
\* TokenSpec: blocks of github_api.execution_context being entered and left,
\* and calls of github_api.github_request inside and outside of them.

MaxBlocks == 2

ContextTokens == {None, "tokC", "tokD"}
ProvidedTokens == {None, "", "tokA"}

InitToken ==
    /\ request_token = None
    /\ environ \in {Environ(g, h) : g \in {None, "", "tokE"}, h \in {None, "tokH"}}
    /\ llm_configured = TRUE
    /\ access \in {"ok", "bad_token"}
    /\ branches = {DefaultBranch}
    /\ files = [b \in branches |-> InitialFiles]
    /\ repo_context = EmptyContext
    /\ ExecuteIdle
    /\ PutFileIdle
    /\ PlanIdle
    /\ TokenIdle
    /\ AppIdle
    /\ OAuthIdle

\* execution_context, lines 25-27: token_var = _request_token.set(token),
\* then the body of the with statement runs.
ExecutionContextEnter ==
    \E tok \in ContextTokens :
        /\ Len(token_vars) < MaxBlocks
        /\ token_vars' = Append(token_vars, [token |-> tok, old_value |-> request_token])
        /\ request_token' = tok
        /\ UNCHANGED <<block_exit, github_request_call, environ, llm_configured, access,
                       branches, files, repo_context, executeVars, putFileVars, planVars,
                       appVars, oauthVars>>

\* An execution_context block that forgets its token_var and clears the
\* context variable when it is left.
ExecutionContextExitClearing ==
    \E how \in {"normal", "exception"} :
        /\ token_vars # <<>>
        /\ request_token' = None
        /\ token_vars' = SubSeq(token_vars, 1, Len(token_vars) - 1)
        /\ block_exit' = how
        /\ UNCHANGED <<github_request_call, environ, llm_configured, access, branches,
                       files, repo_context, executeVars, putFileVars, planVars,
                       appVars, oauthVars>>

\* execution_context, lines 28-29: the innermost block is left, by its body
\* ending or by an exception of its body, and the finally clause runs
\* _request_token.reset(token_var).
ExecutionContextExit ==
    \E how \in {"normal", "exception"} :
        /\ token_vars # <<>>
        /\ request_token' = token_vars[Len(token_vars)].old_value
        /\ token_vars' = SubSeq(token_vars, 1, Len(token_vars) - 1)
        /\ block_exit' = how
        /\ UNCHANGED <<github_request_call, environ, llm_configured, access, branches,
                       files, repo_context, executeVars, putFileVars, planVars,
                       appVars, oauthVars>>

\* github_request (lines 67-99) called with a token argument: the token is
\* resolved (line 75) before the client is built; with none, the
\* HTTPException(401) of _github_token ends the call.  A status of 400 or
\* more becomes an HTTPException (lines 86-95).
GithubRequest ==
    \E provided \in ProvidedTokens :
        LET github_token == GithubToken(provided) IN
        /\ github_request_call' =
               IF github_token = None
               THEN [token |-> provided, github_token |-> None, requests |-> <<>>,
                     raised |-> Exc("HTTPException", 401, "GitHub authentication required")]
               ELSE [token |-> provided, github_token |-> github_token,
                     requests |-> <<[method |-> "GET", authorization |-> github_token]>>,
                     raised |-> IF access = "bad_token"
                                THEN Exc("HTTPException", 401, "GitHub Token Expired or Invalid")
                                ELSE NoException]
        /\ UNCHANGED <<token_vars, block_exit, worldVars, executeVars, putFileVars, planVars,
                       appVars, oauthVars>>

NextToken ==
    \/ ExecutionContextEnter
    \/ ExecutionContextExit
    \/ GithubRequest

TokenSpec == InitToken /\ [][NextToken]_vars

\* ------------------------------------------------ the GitHub App caches
\*
\* AppSpec: calls of github_app.get_installation_for_repo and
\* get_installation_token_for_repo as time passes, GitHub answering each
\* request as it chooses.  A call is one step: the time it reads at lines
\* 116, 139/149 and 190 is the time of the step.

InitApp ==
    /\ request_token = None
    /\ environ = NoEnviron
    /\ llm_configured = TRUE
    /\ access = "ok"
    /\ branches = {DefaultBranch}
    /\ files = [b \in branches |-> InitialFiles]
    /\ repo_context = EmptyContext
    /\ ExecuteIdle
    /\ PutFileIdle
    /\ PlanIdle
    /\ TokenIdle
    /\ clock = 0
    /\ app_configured \in BOOLEAN
    /\ installation_cache = [k \in AppRepos |-> NoInstallationEntry]
    /\ token_cache = [i \in InstallationIds |-> NoTokenEntry]
    /\ minted = 0
    /\ installation_call = NoInstallationCall
    /\ token_call = NoTokenCall
    /\ OAuthIdle

notAppVars == <<worldVars, executeVars, putFileVars, planVars, tokenVars, oauthVars>>

\* Time passes.
Tick ==
    /\ \E t \in Instants : t > clock /\ clock' = t
    /\ UNCHANGED <<app_configured, installation_cache, token_cache, minted,
                   installation_call, token_call, notAppVars>>

\* Lines 113-116 with "<=" for "<": the entry is used up to and at the TTL.
InstallationCachedAtTTL(cache_key) ==
    /\ installation_cache[cache_key].present
    /\ clock - installation_cache[cache_key].timestamp <= CACHE_TTL_SECONDS

\* Lines 113-116: the key is in _installation_cache and the entry is younger
\* than CACHE_TTL_SECONDS.
InstallationCached(cache_key) ==
    /\ installation_cache[cache_key].present
    /\ clock - installation_cache[cache_key].timestamp < CACHE_TTL_SECONDS

\* get_installation_for_repo (lines 99-158), GitHub answering the request,
\* if one is issued, with the status given: what the call returns (the
\* installation by its id), the request it issued and _installation_cache
\* after it.  generate_jwt (line 121) raises ValueError when the App is not
\* configured; it and a status other than 200 and 404 (raise_for_status,
\* line 142) end in the except of line 156.
GetInstallation(cache_key, status) ==
    IF InstallationCached(cache_key)
    THEN [returned |-> installation_cache[cache_key].data, requests |-> 0, status |-> 0,
          cache |-> installation_cache]
    ELSE IF ~app_configured
    THEN [returned |-> None, requests |-> 0, status |-> 0, cache |-> installation_cache]
    ELSE IF status = 404
    THEN [returned |-> None, requests |-> 1, status |-> status,
          cache |-> [installation_cache EXCEPT ![cache_key] =
                        [present |-> TRUE, data |-> None, timestamp |-> clock]]]
    ELSE IF status = 200
    THEN [returned |-> "i1", requests |-> 1, status |-> status,
          cache |-> [installation_cache EXCEPT ![cache_key] =
                        [present |-> TRUE, data |-> "i1", timestamp |-> clock]]]
    ELSE [returned |-> None, requests |-> 1, status |-> status, cache |-> installation_cache]

InstallationCallOf(cache_key, lookup) ==
    [at |-> clock, cache_key |-> cache_key, status |-> lookup.status,
     requests |-> lookup.requests, returned |-> lookup.returned]

GetInstallationForRepo ==
    \E cache_key \in AppRepos, status \in LookupAnswers :
        LET lookup == GetInstallation(cache_key, status) IN
        /\ installation_cache' = lookup.cache
        /\ installation_call' = InstallationCallOf(cache_key, lookup)
        /\ UNCHANGED <<clock, app_configured, token_cache, minted, token_call, notAppVars>>

\* Lines 185-190 without the buffer: the cached token is used until it expires.
TokenCachedUntilExpiry(installation_id) ==
    /\ token_cache[installation_id].present
    /\ clock < token_cache[installation_id].expires_at

\* Lines 185-190: the installation has a cached token and now is before its
\* expiry less TOKEN_CACHE_BUFFER.
TokenCached(installation_id) ==
    /\ token_cache[installation_id].present
    /\ clock < token_cache[installation_id].expires_at - TOKEN_CACHE_BUFFER

\* get_installation_token_for_repo (lines 161-226): the installation is looked
\* up (line 179); a cached token that is still good is returned (line 192);
\* else one is minted and cached (lines 196-222), and any failure on the way
\* returns None (lines 224-226).
GetInstallationTokenForRepo ==
    \E cache_key \in AppRepos, status \in LookupAnswers, mint_status \in MintAnswers,
       lifetime \in Lifetimes :
        LET lookup == GetInstallation(cache_key, status)
            installation_id == lookup.returned
            call == [at |-> clock, cache_key |-> cache_key,
                     cached_token |-> NoTokenEntry, status |-> 0, requests |-> 0,
                     returned |-> None] IN
        /\ installation_cache' = lookup.cache
        /\ installation_call' = InstallationCallOf(cache_key, lookup)
        /\ IF installation_id = None
           THEN /\ token_call' = call
                /\ UNCHANGED <<token_cache, minted>>
           ELSE IF TokenCached(installation_id)
           THEN /\ token_call' = [call EXCEPT !.cached_token = token_cache[installation_id],
                                              !.returned = token_cache[installation_id].token]
                /\ UNCHANGED <<token_cache, minted>>
           ELSE IF ~app_configured
           THEN /\ token_call' = [call EXCEPT !.cached_token = token_cache[installation_id]]
                /\ UNCHANGED <<token_cache, minted>>
           ELSE IF mint_status = 201
           THEN /\ minted < MaxMints
                /\ minted < Len(TokenNames)
                /\ minted' = minted + 1
                /\ token_cache' = [token_cache EXCEPT ![installation_id] =
                                      [present |-> TRUE, token |-> TokenNames[minted + 1],
                                       expires_at |-> clock + lifetime]]
                /\ token_call' = [call EXCEPT !.cached_token = token_cache[installation_id],
                                              !.status = mint_status, !.requests = 1,
                                              !.returned = TokenNames[minted + 1]]
           ELSE /\ token_call' = [call EXCEPT !.cached_token = token_cache[installation_id],
                                              !.status = mint_status, !.requests = 1]
                /\ UNCHANGED <<token_cache, minted>>
        /\ UNCHANGED <<clock, app_configured, notAppVars>>

\* clear_cache (lines 285-289).
ClearCache ==
    /\ installation_cache' = [k \in AppRepos |-> NoInstallationEntry]
    /\ token_cache' = [i \in InstallationIds |-> NoTokenEntry]
    /\ UNCHANGED <<clock, app_configured, minted, installation_call, token_call, notAppVars>>

NextApp ==
    \/ Tick
    \/ GetInstallationForRepo
    \/ GetInstallationTokenForRepo
    \/ ClearCache

AppSpec == InitApp /\ [][NextApp]_vars

\* ------------------------------------------------ the OAuth web flow
\*
\* OAuthSpec: calls of github_oauth.generate_authorization_url and
\* exchange_code_for_token as time passes.

InitOAuth ==
    /\ request_token = None
    /\ environ = NoEnviron
    /\ llm_configured = TRUE
    /\ access = "ok"
    /\ branches = {DefaultBranch}
    /\ files = [b \in branches |-> InitialFiles]
    /\ repo_context = EmptyContext
    /\ ExecuteIdle
    /\ PutFileIdle
    /\ PlanIdle
    /\ TokenIdle
    /\ AppIdle
    /\ client_secret \in BOOLEAN
    /\ oauth_states = {}
    /\ issued = <<>>
    /\ presentations = [s \in 0..MaxStates |-> 0]
    /\ exchange_call = NoExchangeCall

notOAuthVars == <<worldVars, executeVars, putFileVars, planVars, tokenVars, appVars>>

\* _cleanup_old_states (lines 277-285): the entries that stay.
CleanupOldStates(states) == {e \in states : ~(clock - e.timestamp > 600)}

\* generate_authorization_url (lines 71-99): a fresh state is stored with the
\* time (lines 79-87), then the old states are removed (line 88).
GenerateAuthorizationUrl ==
    /\ Len(issued) < MaxStates
    /\ LET state == Len(issued) + 1 IN
       /\ oauth_states' =
              CleanupOldStates(oauth_states \cup {[state |-> state, timestamp |-> clock]})
       /\ issued' = Append(issued, clock)
    /\ UNCHANGED <<client_secret, presentations, exchange_call, notOAuthVars>>

\* The state check with a lookup in place of the pop of line 117: a state
\* that passes stays in the store.
OAuthStateCheckWithoutPop(state) ==
    IF ~client_secret
    THEN [raised |-> "Web Flow requires GITHUB_CLIENT_SECRET", states |-> oauth_states]
    ELSE IF ~(\E e \in oauth_states : e.state = state)
    THEN [raised |-> "Invalid OAuth state", states |-> oauth_states]
    ELSE LET oauth_state == CHOOSE e \in oauth_states : e.state = state IN
         IF clock - oauth_state.timestamp > 600
         THEN [raised |-> "OAuth interaction timed out", states |-> oauth_states \ {oauth_state}]
         ELSE [raised |-> None, states |-> oauth_states]

\* exchange_code_for_token, lines 106-119: the client secret is required
\* first; then the state must be in _oauth_states, from which it is popped,
\* and must not be older than 600 seconds.  What the check raises (None:
\* nothing) and _oauth_states after it.
OAuthStateCheck(state) ==
    IF ~client_secret
    THEN [raised |-> "Web Flow requires GITHUB_CLIENT_SECRET", states |-> oauth_states]
    ELSE IF ~(\E e \in oauth_states : e.state = state)
    THEN [raised |-> "Invalid OAuth state", states |-> oauth_states]
    ELSE LET oauth_state == CHOOSE e \in oauth_states : e.state = state IN
         IF clock - oauth_state.timestamp > 600
         THEN [raised |-> "OAuth interaction timed out", states |-> oauth_states \ {oauth_state}]
         ELSE [raised |-> None, states |-> oauth_states \ {oauth_state}]

\* exchange_code_for_token (lines 102-153) called with a state that was
\* issued or with one that never was; after the state check the code is
\* exchanged with GitHub, which answers or fails.
ExchangeCodeForToken ==
    \E state \in 0..Len(issued), answered \in BOOLEAN :
        LET check == OAuthStateCheck(state) IN
        /\ oauth_states' = check.states
        /\ presentations' = [presentations EXCEPT ![state] = IF @ < 2 THEN @ + 1 ELSE @]
        /\ exchange_call' =
               [at |-> clock, state |-> state, accepted |-> check.raised = None,
                raised |-> IF check.raised # None THEN check.raised
                           ELSE IF answered THEN None
                           ELSE "Failed to contact GitHub authentication server.",
                returned |-> IF check.raised = None /\ answered THEN "AuthSession" ELSE None]
        /\ UNCHANGED <<client_secret, issued, notOAuthVars>>

NextOAuth ==
    \/ Tick
    \/ GenerateAuthorizationUrl
    \/ ExchangeCodeForToken

OAuthSpec == InitOAuth /\ [][NextOAuth]_vars

\* ------------------------------------------------------------ properties

Finished == pc = "ended"

\* The call got its feature branch (line 351 ran).
BranchSetUp == branch_created = "True"

\* The file actions of a plan, in plan order, as [step, file, path, action].
RECURSIVE FileActionsFrom(_, _, _)
FileActionsFrom(steps, i, j) ==
    IF i > Len(steps) THEN <<>>
    ELSE IF j > Len(steps[i].files) THEN FileActionsFrom(steps, i + 1, 1)
    ELSE <<[step |-> i, file |-> j, path |-> steps[i].files[j].path,
            action |-> steps[i].files[j].action]>>
         \o FileActionsFrom(steps, i, j + 1)

FileActions == FileActionsFrom(plan.steps, 1, 1)

MutatingActions == SelectSeq(FileActions, LAMBDA fa : fa.action # "READ")

\* The (step, file) places of the operations issued, in the order of issue,
\* each place once for each run of operations on it.
RECURSIVE PlacesOf(_)
PlacesOf(ops) ==
    IF ops = <<>> THEN <<>>
    ELSE LET rest == PlacesOf(Tail(ops))
             here == <<Head(ops).step, Head(ops).file>> IN
         IF rest # <<>> /\ Head(rest) = here THEN rest ELSE <<here>> \o rest

HasOp(fa, kinds) == \E k \in 1..Len(file_ops) :
    /\ file_ops[k].step = fa.step
    /\ file_ops[k].file = fa.file
    /\ file_ops[k].op \in kinds

\* The file action ended with its write or delete accepted.
Succeeded(fa) == \E k \in 1..Len(file_ops) :
    /\ file_ops[k].step = fa.step
    /\ file_ops[k].file = fa.file
    /\ file_ops[k].op \in {"put_file", "delete_file"}
    /\ file_ops[k].ok

\* C1: during one call the file actions are performed one after the other in
\* plan order (steps in list order, files of a step in list order) and never
\* two operations are in flight: at the end of a call that got its branch,
\* the file actions worked on are the plan's CREATE/MODIFY/DELETE actions in
\* plan order, and at no time is more than one request in flight.
C1_FileActionsInPlanOrder ==
    /\ Cardinality(inflight) <= 1
    /\ (Finished /\ BranchSetUp) =>
           PlacesOf(file_ops) =
               [k \in 1..Len(MutatingActions) |->
                   <<MutatingActions[k].step, MutatingActions[k].file>>]

\* C2: whatever fails per file, every CREATE/MODIFY/DELETE file action of
\* every step is attempted: at the end of a call that got its branch, each of
\* them has had an operation issued for it.
C2_EveryFileActionAttempted ==
    (Finished /\ BranchSetUp) =>
        \A k \in 1..Len(MutatingActions) :
            HasOp(MutatingActions[k],
                  {"generate", "get_file", "get_sha", "put_file", "delete_file"})

\* C3: the execution log holds, for every step of the plan, a summary with
\* exactly one outcome line per file action of the step, in file order: the
\* informational mark for READ, else the success mark if and only if the
\* file's operation succeeded and the failure mark if and only if it failed.
C3_OneOutcomeLinePerFileAction ==
    (Finished /\ BranchSetUp) =>
        /\ Len(execution_steps) = Len(plan.steps)
        /\ \A i \in 1..Len(plan.steps) :
            /\ Len(execution_steps[i].lines) = Len(plan.steps[i].files)
            /\ \A j \in 1..Len(plan.steps[i].files) :
                LET f == plan.steps[i].files[j]
                    line == execution_steps[i].lines[j]
                    fa == [step |-> i, file |-> j, path |-> f.path,
                           action |-> f.action] IN
                /\ line.path = f.path
                /\ line.mark = IF f.action = "READ" THEN "info"
                               ELSE IF Succeeded(fa) THEN "ok" ELSE "fail"

\* The POST of create_branch was refused because the feature branch exists
\* (an earlier run with the same branch name created it).
BranchAlreadyExisted ==
    /\ Len(requests) = 3
    /\ ~BranchSetUp
    /\ branch_name # DefaultBranch
    /\ GithubAnswer("post_ref") = <<422, "Reference already exists">>

\* C6: when creating the branch fails because the branch already exists,
\* execute_plan does not raise: it logs a warning, goes on with the existing
\* branch and returns an execution log.
C6_ExistingBranchIsReused ==
    (Finished /\ BranchAlreadyExisted) =>
        /\ raised = NoException
        /\ warned
        /\ result # NoResult

\* create_branch failed with an HTTP error that is neither "already exists"
\* nor a credential failure (repository not found, base ref missing,
\* permission denied, invalid name).
BranchCreationFailedOtherwise ==
    /\ ~BranchSetUp
    /\ pending_exc.type = "HTTPException"
    /\ pending_exc.status # 401
    /\ pending_exc.detail # "Reference already exists"

\* C7: when creating the branch fails for a reason other than the branch
\* existing, execute_plan ends by raising a BranchSetupError and has
\* performed no file action.
C7_OtherFailureRaisesBranchSetupError ==
    (Finished /\ BranchCreationFailedOtherwise) =>
        /\ raised.type = "BranchSetupError"
        /\ file_ops = <<>>

\* No token is given, none is in the request context, none in the
\* environment, and the call came to the point of needing one.
NoCredential ==
    /\ GithubToken(token) = None
    /\ pending_exc.status = 401

\* C8: with no usable credential at all, execute_plan raises the
\* authentication error (the 401 of _github_token) to its caller and returns
\* no execution log.
C8_NoCredentialRaisesAuthError ==
    (Finished /\ NoCredential) =>
        /\ raised.type = "HTTPException"
        /\ raised.status = 401
        /\ result = NoResult

\* The content the feature branch holds for the path when operation k is
\* issued, as far as this call wrote it: that of the last accepted put_file
\* before k (None after an accepted delete_file), else that of the branch
\* as it was created.
RECURSIVE TipBefore(_, _)
TipBefore(path, k) ==
    IF k <= 1 THEN InitialFiles[path]
    ELSE LET o == file_ops[k - 1] IN
         IF o.path = path /\ o.ok /\ o.op = "put_file" THEN o.content
         ELSE IF o.path = path /\ o.ok /\ o.op = "delete_file" THEN None
         ELSE TipBefore(path, k - 1)

\* C9: a MODIFY reads the current content of its file from the tip of the
\* feature branch: every MODIFY of the plan has a read of its path on the
\* feature branch, and what it read is what the branch held then, so the
\* content committed by an earlier CREATE of the same path.
C9_ModifyReadsFeatureBranchTip ==
    (Finished /\ BranchSetUp) =>
        \A n \in 1..Len(MutatingActions) :
            MutatingActions[n].action = "MODIFY" =>
                \E k \in 1..Len(file_ops) :
                    /\ file_ops[k].step = MutatingActions[n].step
                    /\ file_ops[k].file = MutatingActions[n].file
                    /\ file_ops[k].op = "get_file"
                    /\ file_ops[k].branch = branch_name
                    /\ file_ops[k].ok => file_ops[k].content = TipBefore(file_ops[k].path, k)

\* C10: a DELETE fetches the SHA of its path from the feature branch and
\* deletes on the feature branch with that SHA; a path the branch does not
\* hold gets no delete request and a failure line in the log.
C10_DeleteUsesFeatureBranchSha ==
    (Finished /\ BranchSetUp) =>
        \A i \in 1..Len(plan.steps) : \A j \in 1..Len(plan.steps[i].files) :
            plan.steps[i].files[j].action = "DELETE" =>
                \E k \in 1..Len(file_ops) :
                    /\ file_ops[k].step = i
                    /\ file_ops[k].file = j
                    /\ file_ops[k].op = "get_sha"
                    /\ file_ops[k].branch = branch_name
                    /\ \A d \in 1..Len(file_ops) :
                        (file_ops[d].step = i /\ file_ops[d].file = j
                            /\ file_ops[d].op = "delete_file") =>
                            /\ file_ops[k].ok
                            /\ file_ops[d].branch = branch_name
                            /\ file_ops[d].sha = file_ops[k].sha
                    /\ ~file_ops[k].ok =>
                        /\ Len(execution_steps) >= i
                        /\ Len(execution_steps[i].lines) >= j
                        /\ execution_steps[i].lines[j].mark = "fail"

\* C11: the commit of a MODIFY carries as its precondition the SHA of the
\* blob whose content was fetched for that MODIFY, so that a blob changed by
\* someone else between the read and the write is refused, not overwritten:
\* at the end of a call that got its branch, every MODIFY of the plan has a
\* read of its path and, when the read succeeded, a later write that carries
\* the SHA the read returned.
C11_ModifyWriteCarriesReadSha ==
    (Finished /\ BranchSetUp) =>
        \A n \in 1..Len(MutatingActions) :
            MutatingActions[n].action = "MODIFY" =>
                \E k \in 1..Len(file_ops) :
                    /\ file_ops[k].step = MutatingActions[n].step
                    /\ file_ops[k].file = MutatingActions[n].file
                    /\ file_ops[k].op = "get_file"
                    /\ file_ops[k].ok =>
                        \E w \in (k + 1)..Len(file_ops) :
                            /\ file_ops[w].step = file_ops[k].step
                            /\ file_ops[w].file = file_ops[k].file
                            /\ file_ops[w].op = "put_file"
                            /\ file_ops[w].sha = file_ops[k].sha

\* The token of the installation of the GitHub App for the repository
\* (github_app.get_installation_token_for_repo).
InstallationToken == "tokApp"

\* The PUT of the call was refused for lack of permission.
PermissionRefused ==
    /\ put_file_pc = "done"
    /\ put_file_raised.status = 403

\* C12: a write that fails with a permissions-class error while an
\* installation credential is configured for the repository is retried
\* exactly once with that credential before the failure is surfaced: a call
\* of put_file whose PUT was refused with 403 has, when the GitHub App is
\* installed, issued exactly one more PUT, carrying the installation token.
C12_PermissionFailureRetriedOnce ==
    (PermissionRefused /\ app_installed) =>
        Cardinality({k \in 1..Len(put_file_requests) :
                        /\ put_file_requests[k].method = "PUT"
                        /\ put_file_requests[k].token = InstallationToken}) = 1

\* Lines 338-344 have run.
BranchNameDecided == stage # None

\* The name was derived from the goal, none being supplied.
BranchNameDerived == BranchNameDecided /\ branch_arg = None

\* The characters of a goal that are lower-case letters or digits.
Alphanumerics == {"f", "a", "7"}

\* s with every maximal run of characters outside class replaced by one "-":
\* a character of the class stays, a character outside it gives "-" when it
\* opens a run and nothing when it continues one.
RECURSIVE CollapseFrom(_, _, _)
CollapseFrom(s, class, i) ==
    IF i > Len(s) THEN <<>>
    ELSE (IF s[i] \in class THEN <<s[i]>>
          ELSE IF i > 1 /\ s[i - 1] \notin class THEN <<>>
          ELSE <<"-">>) \o CollapseFrom(s, class, i + 1)

Collapse(s, class) == CollapseFrom(s, class, 1)

\* s without its leading and trailing "-".
Trimmed(s) ==
    LET kept == {i \in 1..Len(s) : s[i] # "-"} IN
    IF kept = {} THEN <<>>
    ELSE SubSeq(s, CHOOSE i \in kept : \A j \in kept : i <= j,
                   CHOOSE i \in kept : \A j \in kept : i >= j)

\* The last six decimal digits of t, leading zeros kept.
SixDigits(t) ==
    <<DigitChar((t \div 100000) % 10), DigitChar((t \div 10000) % 10),
      DigitChar((t \div 1000) % 10), DigitChar((t \div 100) % 10),
      DigitChar((t \div 10) % 10), DigitChar(t % 10)>>

NameOf(S, t) == "gitpilot-" \o Join(S) \o "-" \o Join(SixDigits(t))

\* C13 as stated: the derived name is "gitpilot-" + S + "-" + T with S the
\* lower-cased goal, every maximal run of non-alphanumeric characters
\* collapsed to one "-", cut to at most 40 characters, and T six digits of the
\* time; a supplied branch_name is used unchanged.
C13_NameAsStated ==
    BranchNameDecided =>
        branch_name = IF branch_arg = None
                      THEN NameOf(Take(Collapse(Lower(plan.goal), Alphanumerics), TruncateLen), now)
                      ELSE branch_arg

\* C13, amended: S is the lower-cased goal with every maximal run of
\* characters other than lower-case letters, digits and "-" replaced by one
\* "-" (a "-" of the goal stays as it is), cut to at most 40 characters and
\* then stripped of leading and trailing "-"; T is the last six digits of the
\* time in seconds; a supplied branch_name, the empty string included, is
\* used unchanged.
C13_DerivedBranchName ==
    BranchNameDecided =>
        branch_name = IF branch_arg = None
                      THEN NameOf(Trimmed(Take(Collapse(Lower(plan.goal),
                                                        Alphanumerics \cup {"-"}),
                                               TruncateLen)), now)
                      ELSE branch_arg

\* C13 witness: a name derived from a goal longer than 40 characters whose
\* cut leaves a trailing "-", and the branch created under that name.
C13_Witness ==
    /\ BranchNameDerived
    /\ branch_created = "True"
    /\ branch_name \in branches
    /\ Len(plan.goal) > TruncateLen
    /\ plan.goal[TruncateLen] = "!"

\* C14: the derivation is deterministic and never yields the empty name: a
\* call at any other time with the same last six digits derives, for the same
\* goal, the name this call derived, and that name is not empty.
C14_DerivationDeterministic ==
    BranchNameDerived =>
        /\ branch_name # ""
        /\ \A t \in Nows :
            LastN(Str(t), TimestampLen) = LastN(Str(now), TimestampLen) =>
                DerivedBranchName(plan.goal, t) = branch_name

\* C14 witness: a name derived from a goal of punctuation only, at a time
\* that shares its last six digits with another time.
C14_Witness ==
    /\ BranchNameDerived
    /\ plan.goal = <<"!", "!">>
    /\ \E t \in Nows : t # now /\ LastN(Str(t), TimestampLen) = LastN(Str(now), TimestampLen)

\* A generated text, as its lines, without its fences: when the first line
\* opens a fence the first line goes, and with it the last line when that is
\* a closing fence; any other text stays as it is.
Unfenced(lines) ==
    IF lines = <<>> \/ ~lines[1].opens_fence THEN lines
    ELSE IF lines[Len(lines)].closes_fence THEN SubSeq(lines, 2, Len(lines) - 1)
    ELSE Tail(lines)

\* C15: the blob committed for a CREATE or a MODIFY is the generated text
\* with its opening and closing fence lines removed (a text without fences
\* is committed as it is): at the end of a call that got its branch, every
\* CREATE and MODIFY whose content was generated has a write of that content
\* without its fences.
C15_CommittedContentIsUnfenced ==
    (Finished /\ BranchSetUp) =>
        \A n \in 1..Len(MutatingActions) :
            MutatingActions[n].action \in {"CREATE", "MODIFY"} =>
                \E g \in 1..Len(file_ops) :
                    /\ file_ops[g].step = MutatingActions[n].step
                    /\ file_ops[g].file = MutatingActions[n].file
                    /\ file_ops[g].op = "generate"
                    /\ file_ops[g].ok =>
                        \E w \in (g + 1)..Len(file_ops) :
                            /\ file_ops[w].step = file_ops[g].step
                            /\ file_ops[w].file = file_ops[g].file
                            /\ file_ops[w].op = "put_file"
                            /\ file_ops[w].content = Unfenced(file_ops[g].content)

\* C16: a CREATE of a path the feature branch already holds succeeds,
\* overwrites the blob with the generated content and is logged as a
\* success: at the end of a call that got its branch, the first file action
\* of the plan, when it is a CREATE of a path held by the default branch the
\* feature branch was made from, has an accepted write, the branch holds the
\* content written, and the log has a success line for it.
C16_CreateOverwritesExisting ==
    (Finished /\ BranchSetUp /\ FileActions # <<>>) =>
        LET fa == FileActions[1] IN
        (fa.action = "CREATE" /\ InitialFiles[fa.path] # None) =>
            /\ \E w \in 1..Len(file_ops) :
                /\ file_ops[w].step = fa.step
                /\ file_ops[w].file = fa.file
                /\ file_ops[w].op = "put_file"
                /\ file_ops[w].ok
                /\ files[branch_name][fa.path] = file_ops[w].content
            /\ Len(execution_steps) >= fa.step
            /\ Len(execution_steps[fa.step].lines) >= fa.file
            /\ execution_steps[fa.step].lines[fa.file].mark = "ok"

\* C17: a READ file action causes no repository operation and adds an
\* informational line to the summary of its step: at the end of a call that
\* got its branch, no operation was issued for any READ of the plan, the
\* feature branch holds what it held when it was created if the plan has
\* READ actions only, and the log has the informational line of every READ.
C17_ReadOnlyLogsInformationalLine ==
    (Finished /\ BranchSetUp) =>
        /\ \A n \in 1..Len(FileActions) :
            FileActions[n].action = "READ" =>
                /\ ~HasOp(FileActions[n],
                          {"generate", "get_file", "get_sha", "put_file", "delete_file"})
                /\ Len(execution_steps) >= FileActions[n].step
                /\ Len(execution_steps[FileActions[n].step].lines) >= FileActions[n].file
                /\ execution_steps[FileActions[n].step].lines[FileActions[n].file].mark = "info"
        /\ MutatingActions = <<>> => files[branch_name] = files[DefaultBranch]

\* C18: execute_plan never mutates the Plan it is given: no step of a call
\* changes the plan, so that the plan after the call, returned or failed, is
\* the plan before it.
C18_PlanNeverMutated == [][plan' = plan]_vars

\* C18 witness: a call that went as far as the code goes (the branch
\* created under a name derived from the goal, then the failure of line 363)
\* on a plan with steps and an upper-case letter in its goal.
C18_Witness ==
    /\ Finished
    /\ BranchSetUp
    /\ now # 0
    /\ plan.steps # <<>>
    /\ Lower(plan.goal) # plan.goal

\* C19: generate_plan performs only read operations on the repository: no
\* step of generate_plan and no call of a tool its agents are given changes
\* the branches or the files of the repository, and every request a tool
\* issues is a GET.
C19_PlanningOnlyReads ==
    [][/\ branches' = branches
       /\ files' = files
       /\ \A k \in 1..Len(tool_call'.requests) : tool_call'.requests[k].method = "GET"]_vars

\* C19 witness: generate_plan has ended (at line 53) and a tool has fetched
\* from the repository.
C19_Witness ==
    /\ generate_plan_pc = "ended"
    /\ generate_plan_raised.type = "TypeError"
    /\ tool_call.tool = "read_file"
    /\ tool_call.requests # <<>>
    /\ tool_call.caught = NoException

\* C20: every exploration tool returns a text for every input and every
\* failure of the underlying fetch, a missing path and an unset repository
\* context included, and never raises to its caller.
C20_ToolsReturnText ==
    tool_call # NoToolCall =>
        /\ tool_call.raised = NoException
        /\ tool_call.returned # NoText
        /\ tool_call.caught # NoException => tool_call.returned.head = ErrorHead(tool_call.tool)

\* C20 witness: read_file of a path the repository does not hold, the
\* context being set: the 404 of the fetch was caught and a text returned.
C20_Witness ==
    /\ tool_call.tool = "read_file"
    /\ tool_call.arg = PathChars("b.py")
    /\ GetRepoContext = NoException
    /\ tool_call.caught.status = 404
    /\ tool_call.returned.head = "Error reading file"

\* The call of generate_plan had what lines 48 and 51 require: a configured
\* LLM and a repository name of two parts.
GeneratePlanInputsValid ==
    /\ llm_configured
    /\ Len(Split(generate_plan_args.repo_full_name)) = 2

\* The direct fetch of the snapshot (line 58, get_repo_tree at
\* agent_tools.py:51) fails for this caller.
SnapshotFetchFails == GetRepoTree.exc # NoException

\* C21: if the direct snapshot fetch at the start of generate_plan fails,
\* generate_plan does not abort, the failure is swallowed and the agents are
\* run: a call with valid inputs whose snapshot fetch fails does not end with
\* an exception.
C21_FetchFailureDoesNotAbort ==
    (generate_plan_pc = "ended" /\ GeneratePlanInputsValid /\ SnapshotFetchFails) =>
        generate_plan_raised = NoException

\* C22: generate_plan either returns a schema-valid Plan or raises the typed
\* plan-generation error: a call with valid inputs ends with no exception
\* (the Plan returned) or with PlanGenerationError, nothing else.
C22_PlanOrTypedError ==
    (generate_plan_pc = "ended" /\ GeneratePlanInputsValid) =>
        generate_plan_raised.type \in {None, "PlanGenerationError"}

\* The (owner, repo) of the request generate_plan serves.
RequestRepository ==
    LET parts == Split(generate_plan_args.repo_full_name) IN
    [owner |-> Join(parts[1]), repo |-> Join(parts[2])]

C24_OneLogEntryPerStep ==
    (Finished /\ BranchSetUp) =>
        /\ result.status = "completed"
        /\ Len(result.steps) = Len(plan.steps)
        /\ \A i \in 1..Len(plan.steps) :
               i <= Len(result.steps) =>
                   result.steps[i].step_number = plan.steps[i].step_number

\* C25: for every finite plan, the external calls returning, execute_plan
\* reaches DONE and returns an execution log: a call that got its branch
\* ends with no exception and with a value returned.
C25_ReachesDoneAndReturns ==
    (Finished /\ BranchSetUp) => (raised = NoException /\ result # NoResult)

\* The first of the candidates that is a token (neither missing nor empty).
RECURSIVE FirstAvailable(_)
FirstAvailable(candidates) ==
    IF candidates = <<>> THEN None
    ELSE IF Truthy(Head(candidates)) THEN Head(candidates)
    ELSE FirstAvailable(Tail(candidates))

\* C26: a request carries the first available of the explicit token
\* argument, the request-context token, GITPILOT_GITHUB_TOKEN and
\* GITHUB_TOKEN; with none available the call fails with a 401 and issues no
\* request.  When an execution_context block is left, normally or by an
\* exception, the request-context token is again what it was before the
\* block: the token of the enclosing block, or None outside every block.
C26_TokenResolutionAndRestore ==
    [][/\ github_request_call' # github_request_call =>
            LET call == github_request_call'
                expected == FirstAvailable(<<call.token, request_token,
                                             environ.GITPILOT_GITHUB_TOKEN,
                                             environ.GITHUB_TOKEN>>) IN
            /\ call.github_token = expected
            /\ expected = None => (call.raised.status = 401 /\ call.requests = <<>>)
            /\ expected # None =>
                   (Len(call.requests) = 1 /\ call.requests[1].authorization = expected)
       /\ Len(token_vars') < Len(token_vars) =>
            request_token' = IF token_vars' = <<>> THEN None
                             ELSE token_vars'[Len(token_vars')].token]_vars

\* C26 witness: an inner block has been left by an exception with the outer
\* block's token back in place, and a request without an explicit token
\* carried that token of the context, ahead of the environment's.
C26_Witness ==
    /\ block_exit = "exception"
    /\ Len(token_vars) = 1
    /\ request_token = "tokC"
    /\ environ = Environ("", "tokH")
    /\ github_request_call.token = ""
    /\ github_request_call.github_token = "tokC"

\* C27: get_installation_for_repo reuses the cached result of a lookup, a
\* cached negative result (404) included, for every call made less than 300
\* seconds after it was stored, and issues no request then; an entry 300
\* seconds old or older is refetched; a 404 or a found installation is
\* stored with the time of the call, and a lookup that failed with any other
\* error is not cached.
C27_CachedLookupReusedWithinTTL ==
    [][installation_call' # installation_call =>
        LET call == installation_call'
            entry == installation_cache[call.cache_key]
            stored == installation_cache'[call.cache_key] IN
        IF entry.present /\ call.at - entry.timestamp < 300
        THEN /\ call.requests = 0
             /\ call.returned = entry.data
             /\ stored = entry
        ELSE /\ app_configured => call.requests = 1
             /\ call.status = 404 =>
                    (call.returned = None
                     /\ stored = [present |-> TRUE, data |-> None, timestamp |-> call.at])
             /\ call.status = 200 =>
                    (call.returned # None
                     /\ stored = [present |-> TRUE, data |-> call.returned,
                                  timestamp |-> call.at])
             /\ call.status \notin {200, 404} => (call.returned = None /\ stored = entry)]_vars

\* C27 witness: a negative result stored at time 1 has been reused at time
\* 300, 299 seconds later, with no request.
C27_Witness ==
    /\ installation_cache["o/r"] = [present |-> TRUE, data |-> None, timestamp |-> 1]
    /\ installation_call.at = 300
    /\ installation_call.requests = 0
    /\ installation_call.returned = None
    /\ app_configured

\* C28: get_installation_token_for_repo returns a cached installation token
\* only while now < expires_at - 60 s, and then issues no request; otherwise
\* it mints a new token, which replaces the cache entry and is returned; if
\* minting fails it returns None and leaves the cache unchanged.
C28_CachedTokenNeverNearExpiry ==
    [][token_call' # token_call =>
        LET call == token_call'
            installation_id == installation_call'.returned IN
        installation_id # None =>
            LET entry == token_cache[installation_id]
                stored == token_cache'[installation_id] IN
            IF entry.present /\ call.at < entry.expires_at - 60
            THEN /\ call.requests = 0
                 /\ call.returned = entry.token
                 /\ stored = entry
            ELSE /\ call.requests = 1
                 /\ call.status = 201 =>
                        /\ call.returned # None
                        /\ call.returned # entry.token
                        /\ stored.present
                        /\ stored.token = call.returned
                        /\ stored # entry
                 /\ call.status # 201 => (call.returned = None /\ stored = entry)]_vars

\* C28 witness: a token cached with expiry at 360 was asked for at time 300,
\* 60 seconds before its expiry: it was not returned, a new token was minted
\* and cached in its place.
C28_Witness ==
    /\ token_call.at = 300
    /\ token_call.cached_token.present
    /\ token_call.cached_token.expires_at = 360
    /\ token_call.requests = 1
    /\ token_call.returned # None
    /\ token_call.returned # token_call.cached_token.token
    /\ token_cache["i1"].token = token_call.returned

\* C29 as stated: a state is removed from the store on its first
\* presentation, whatever the outcome: no state that has been presented to
\* exchange_code_for_token is in the store.
C29_RemovedOnFirstPresentation ==
    \A e \in oauth_states : presentations[e.state] = 0

\* C29: exchange_code_for_token accepts a state only if
\* generate_authorization_url issued it, it has not been presented before and
\* it is at most 600 seconds old, and an exchange with a state presented
\* before fails.  With the client secret configured the state is out of the
\* store after its first presentation, a timed-out one included; without the
\* client secret the exchange fails ahead of the state check and leaves the
\* store as it was.
C29_StateSingleUseAndTimeLimited ==
    [][exchange_call' # exchange_call \/ presentations' # presentations =>
        LET call == exchange_call' IN
        /\ call.accepted =>
               /\ call.state \in 1..Len(issued)
               /\ presentations[call.state] = 0
               /\ call.at - issued[call.state] <= 600
        /\ presentations[call.state] > 0 => ~call.accepted
        /\ client_secret => ~(\E e \in oauth_states' : e.state = call.state)
        /\ ~client_secret => (~call.accepted /\ oauth_states' = oauth_states)]_vars

\* C29 witness: a state issued at time 0 was presented at time 601 and
\* rejected as timed out, and is out of the store.
C29_Witness ==
    /\ client_secret
    /\ exchange_call.state = 1
    /\ issued[1] = 0
    /\ exchange_call.at = 601
    /\ exchange_call.raised = "OAuth interaction timed out"
    /\ ~(\E e \in oauth_states : e.state = 1)

\* The commits a call added to the feature branch: its accepted writes and
\* deletes.
Commits ==
    Cardinality({k \in 1..Len(file_ops) :
                    file_ops[k].op \in {"put_file", "delete_file"} /\ file_ops[k].ok})

\* The lines of the log with one of the marks, over all steps.
RECURSIVE LinesMarked(_, _)
LinesMarked(steps, marks) ==
    IF steps = <<>> THEN 0
    ELSE Len(SelectSeq(Head(steps).lines, LAMBDA line : line.mark \in marks))
         + LinesMarked(Tail(steps), marks)

\* C30: each file is committed individually and only on success: a call that
\* got its branch has, at its end, one success or failure line for each
\* CREATE, MODIFY and DELETE action of the plan, and as many commits as
\* success lines.
C30_CommitsMatchSuccessLines ==
    (Finished /\ BranchSetUp) =>
        /\ LinesMarked(execution_steps, {"ok", "fail"}) = Len(MutatingActions)
        /\ Commits = LinesMarked(execution_steps, {"ok"})

====
